---- MODULE Spec2Model ----
(***************************************************************************)
(* Model of DataGenerator (src/utils/data_generator.h): createFile,        *)
(* overwriteFile and validateFile working on one path of a POSIX file      *)
(* system, as a single-threaded state machine.                             *)
(*                                                                         *)
(* A uint64_t is modelled by its eight bytes in host memory on a           *)
(* little-endian host (least significant byte first), so htobe64 and       *)
(* be64toh are byte swaps and the 64-bit addition is a carry chain         *)
(* modulo 2^64.  A file is the sequence of its bytes (0-based offset o     *)
(* is element o+1).                                                        *)
(***************************************************************************)
EXTENDS Integers, Sequences, FiniteSets, TLC

\* ---- bounds of the model ------------------------------------------------
MaxSize == 17
MaxBlockSize == 9
MaxTamper == 1
MaxFds == 2

\* bytes the storage under test may put in place of a byte of the file
TamperBytes == {0, 255}

\* ---- program constants --------------------------------------------------
\* sizeof(uint64_t): the header length and the block length
HeaderLen == 8
\* sizeof(BlockType)
BlockLen == 8
\* the slack of the aligned superset buffer
AlignSlack == 16
\* the longest dump of the data-mismatch message
DumpLen == 32

VARIABLES
    exists,         \* the path names a file
    file,           \* its bytes
    blockSize,      \* UtilsConfiguration::blockSize()
    pc,             \* position of the (single) thread
    op,             \* the operation in progress or last run
    openFds,        \* descriptors opened by the class and not closed
    fdPos,          \* file offset of the descriptor in use
    size,           \* local `size`: bytes still to write / to check
    currentOffset,  \* local `currentOffset`
    bufferSize,     \* buffer.size() / properBuffer.size()
    actualSize,     \* validateFile: st_size
    error,          \* validateFile: the recorded size warning
    result,         \* how the last call ended
    iters,          \* chunk iterations of the running validateFile
    origin,         \* which generator produced the file as it is now
    genSize,        \* the size that generator was given
    tampers         \* bytes/length changes made by the storage under test

vars == <<exists, file, blockSize, pc, op, openFds, fdPos, size, currentOffset,
          bufferSize, actualSize, error, result, iters, origin, genSize, tampers>>

Min(a, b) == IF a < b THEN a ELSE b

RECURSIVE Reverse(_)
Reverse(s) == IF s = <<>> THEN <<>> ELSE Reverse(Tail(s)) \o <<Head(s)>>

\* ---- 64-bit unsigned values ---------------------------------------------
RECURSIVE U64Digits(_, _)
U64Digits(n, k) == IF k = 0 THEN <<>> ELSE <<n % 256>> \o U64Digits(n \div 256, k - 1)

\* the uint64_t holding the natural number n
U64(n) == U64Digits(n, 8)

RECURSIVE AddCarry(_, _)
AddCarry(v, c) ==
    IF v = <<>> THEN <<>>
    ELSE <<(Head(v) + c) % 256>> \o AddCarry(Tail(v), (Head(v) + c) \div 256)

\* v + n modulo 2^64 (the carry out of the eighth byte is dropped)
U64Add(v, n) == AddCarry(v, n)

\* 0x0807060504030201ULL
PatternBase == <<1, 2, 3, 4, 5, 6, 7, 8>>

htobe64Identity(v) == v
htobe64(v) == Reverse(v)

be64toh(v) == Reverse(v)

\* ---- the file system -----------------------------------------------------
\* read(fd, buf, n) at file offset pos: the bytes it returns
ReadAt(f, pos, n) == SubSeq(f, pos + 1, Min(pos + n, Len(f)))

WriteAtAppending(f, pos, bytes) == f \o bytes
\* the file after write(fd, bytes) at file offset pos (pos <= Len(f))
WriteAt(f, pos, bytes) ==
    SubSeq(f, 1, pos) \o bytes \o SubSeq(f, pos + Len(bytes) + 1, Len(f))

\* ---- the offset -> block function ---------------------------------------
AlignedAssertsHold(len, offset) == offset % BlockLen = 0 /\ len % BlockLen = 0

RECURSIVE FillBlocks(_, _)
FillBlocks(n, offset) ==
    IF n = 0 THEN <<>>
    ELSE htobe64(U64Add(PatternBase, offset)) \o FillBlocks(n - 1, offset + BlockLen)

fillAlignedBufferWithProperData(len, offset) == FillBlocks(len \div BlockLen, offset)

alignedOffsetOf(offset) == (offset \div BlockLen) * BlockLen
alignedSizeOf(len) == AlignSlack + (len \div BlockLen) * BlockLen

\* the memcpy out of the aligned superset stays inside it
SliceInside(len, offset) ==
    (offset - alignedOffsetOf(offset)) + len <= alignedSizeOf(len)

fillBufferNoShift(len, offset) ==
    IF offset % 8 = 0 /\ len % 8 = 0
    THEN fillAlignedBufferWithProperData(len, offset)
    ELSE SubSeq(fillAlignedBufferWithProperData(alignedSizeOf(len), alignedOffsetOf(offset)),
                1, len)
fillBufferWithProperData(len, offset) ==
    IF offset % 8 = 0 /\ len % 8 = 0
    THEN fillAlignedBufferWithProperData(len, offset)
    ELSE LET alignedBuffer ==
                 fillAlignedBufferWithProperData(alignedSizeOf(len), alignedOffsetOf(offset))
             shift == offset - alignedOffsetOf(offset)
         IN  SubSeq(alignedBuffer, shift + 1, shift + len)

\* no assertion of the fill fails and no byte outside a buffer is touched
FillBufferSafe(len, offset) ==
    IF offset % 8 = 0 /\ len % 8 = 0
    THEN AlignedAssertsHold(len, offset)
    ELSE /\ AlignedAssertsHold(alignedSizeOf(len), alignedOffsetOf(offset))
         /\ SliceInside(len, offset)

\* ---- results ---------------------------------------------------------------
NoError == [set |-> FALSE, expected |-> U64(0), actual |-> 0]

NoResult == [kind |-> "none", why |-> "", size |-> 0, offset |-> 0,
             expected |-> <<>>, actual |-> <<>>, warning |-> NoError]

Ended(kind) == [NoResult EXCEPT !.kind = kind]
Aborted(why) == [NoResult EXCEPT !.kind = "abort", !.why = why]

Abort(why) ==
    /\ pc' = "aborted"
    /\ result' = Aborted(why)


locals == <<fdPos, size, currentOffset, bufferSize, actualSize, error>>

ResetLocals ==
    /\ fdPos' = 0
    /\ size' = 0
    /\ currentOffset' = 0
    /\ bufferSize' = 0
    /\ actualSize' = 0
    /\ error' = NoError

\* control goes back to the caller, normally or by a thrown exception
Return(res) ==
    /\ pc' = "idle"
    /\ result' = res
    /\ ResetLocals

Init ==
    /\ exists = FALSE
    /\ file = <<>>
    /\ blockSize \in 1..MaxBlockSize
    /\ pc = "idle"
    /\ op = "none"
    /\ openFds = 0
    /\ fdPos = 0
    /\ size = 0
    /\ currentOffset = 0
    /\ bufferSize = 0
    /\ actualSize = 0
    /\ error = NoError
    /\ result = NoResult
    /\ iters = 0
    /\ origin = "none"
    /\ genSize = 0
    /\ tampers = 0

\* ---- createFile / overwriteFile -----------------------------------------
\* createFile: open(name, O_WRONLY | O_CREAT | O_TRUNC) and the call of the fill
CreateOpen(sz) ==
    /\ pc = "idle"
    /\ openFds < MaxFds
    /\ exists' = TRUE
    /\ file' = <<>>
    /\ op' = "create"
    /\ openFds' = openFds + 1
    /\ fdPos' = 0
    /\ size' = sz
    /\ genSize' = sz
    /\ origin' = "none"
    /\ tampers' = 0
    /\ iters' = 0
    /\ result' = NoResult
    /\ pc' = "fill_header"
    /\ UNCHANGED <<blockSize, currentOffset, bufferSize, actualSize, error>>

\* overwriteFile: stat, open(name, O_WRONLY) and the call of the fill
OverwriteOpen ==
    /\ pc = "idle"
    /\ openFds < MaxFds
    /\ op' = "overwrite"
    /\ iters' = 0
    /\ origin' = "none"
    /\ IF ~exists
       THEN /\ Abort("stat")
            /\ UNCHANGED <<openFds, fdPos, size, genSize>>
       ELSE /\ openFds' = openFds + 1
            /\ fdPos' = 0
            /\ size' = Len(file)
            /\ genSize' = Len(file)
            /\ result' = NoResult
            /\ pc' = "fill_header"
    /\ UNCHANGED <<exists, file, blockSize, currentOffset, bufferSize, actualSize,
                   error, tampers>>

SizeAssertAlwaysTrue(sz) == TRUE
\* utils_massert(size >= sizeof(serializedSize))
SizeAssert(sz) == sz >= HeaderLen

ChunkLenUnclamped(remaining, bufSize) == bufSize
\* bytesToWrite / bytesToRead: the remaining size, at most the buffer's size
ChunkLen(remaining, bufSize) == IF remaining > bufSize THEN bufSize ELSE remaining

\* fillFileWithProperData up to the loop: the size assertion and the header
FillHeader ==
    /\ pc = "fill_header"
    /\ IF ~SizeAssert(size)
       THEN /\ Abort("size_assert")
            /\ UNCHANGED <<file, fdPos, size, currentOffset, bufferSize>>
       ELSE /\ file' = WriteAt(file, fdPos, htobe64(U64(size)))
            /\ fdPos' = fdPos + HeaderLen
            /\ size' = size - HeaderLen
            /\ currentOffset' = HeaderLen
            /\ bufferSize' = blockSize
            /\ pc' = "fill_loop"
            /\ UNCHANGED result
    /\ UNCHANGED <<exists, blockSize, op, openFds, actualSize, error, iters, origin,
                   genSize, tampers>>

\* one iteration of the write loop
FillChunk ==
    /\ pc = "fill_loop"
    /\ size > 0
    /\ LET bytesToWrite == ChunkLen(size, bufferSize)
       IN  IF ~FillBufferSafe(bytesToWrite, currentOffset)
           THEN /\ Abort("fill")
                /\ UNCHANGED <<file, fdPos, size, currentOffset, bufferSize>>
           ELSE /\ file' = WriteAt(file, fdPos,
                                   fillBufferWithProperData(bytesToWrite, currentOffset))
                /\ fdPos' = fdPos + bytesToWrite
                /\ size' = size - bytesToWrite
                /\ currentOffset' = currentOffset + bytesToWrite
                /\ bufferSize' = bytesToWrite
                /\ UNCHANGED <<pc, result>>
    /\ UNCHANGED <<exists, blockSize, op, openFds, actualSize, error, iters, origin,
                   genSize, tampers>>

\* the loop ends, the fill returns, close(fd), the operation returns
FillClose ==
    /\ pc = "fill_loop"
    /\ size = 0
    /\ openFds' = openFds - 1
    /\ origin' = op
    /\ Return(Ended("ok"))
    /\ UNCHANGED <<exists, file, blockSize, op, iters, genSize, tampers>>

\* ---- validateFile ---------------------------------------------------------
ValidateOpen ==
    /\ pc = "idle"
    /\ openFds < MaxFds
    /\ op' = "validate"
    /\ iters' = 0
    /\ IF ~exists
       THEN /\ Abort("open")
            /\ UNCHANGED <<openFds, fdPos, error>>
       ELSE /\ openFds' = openFds + 1
            /\ fdPos' = 0
            /\ error' = NoError
            /\ result' = NoResult
            /\ pc' = "v_header"
    /\ UNCHANGED <<exists, file, blockSize, size, currentOffset, bufferSize,
                   actualSize, origin, genSize, tampers>>

HeaderReadFailsOnEmpty(nread) == nread = 0
\* read(fd, &expectedSize, sizeof(expectedSize)) != sizeof(expectedSize)
HeaderReadFails(nread) == nread # HeaderLen

\* the warning recorded when the header disagrees with st_size
SizeWarning(expectedSize, st_size) ==
    IF expectedSize # U64(st_size)
    THEN [set |-> TRUE, expected |-> expectedSize, actual |-> st_size]
    ELSE NoError

\* stat, the header read, the size check and the set-up of the content check
ValidateHeader ==
    /\ pc = "v_header"
    /\ LET st_size == Len(file)
           header == ReadAt(file, fdPos, HeaderLen)
       IN  IF HeaderReadFails(Len(header))
           THEN /\ Return([Ended("short") EXCEPT !.size = st_size])
                /\ UNCHANGED openFds
           ELSE /\ actualSize' = st_size
                /\ error' = SizeWarning(be64toh(header), st_size)
                /\ fdPos' = fdPos + HeaderLen
                /\ currentOffset' = HeaderLen
                /\ size' = st_size - HeaderLen
                /\ bufferSize' = blockSize
                /\ pc' = "v_loop"
                /\ UNCHANGED <<openFds, result>>
    /\ UNCHANGED <<exists, file, blockSize, op, iters, origin, genSize, tampers>>

\* index of the first differing byte, or -1
FirstDiff(a, b) ==
    LET D == {i \in 0..(Len(a) - 1) : a[i + 1] # b[i + 1]}
    IN  IF D = {} THEN -1 ELSE CHOOSE i \in D : \A j \in D : i <= j

DataMismatchNoWarning(warning, i, proper, actual, n) ==
    [NoResult EXCEPT !.kind = "data", !.offset = i,
                     !.expected = SubSeq(proper, i + 1, Min(n, i + DumpLen)),
                     !.actual = SubSeq(actual, i + 1, Min(n, i + DumpLen))]
\* the std::invalid_argument thrown for the differing byte i of the chunk
DataMismatch(warning, i, proper, actual, n) ==
    [NoResult EXCEPT !.kind = "data", !.offset = i, !.warning = warning,
                     !.expected = SubSeq(proper, i + 1, Min(n, i + DumpLen)),
                     !.actual = SubSeq(actual, i + 1, Min(n, i + DumpLen))]

\* one iteration of the content check
ValidateChunk ==
    /\ pc = "v_loop"
    /\ size > 0
    /\ iters' = iters + 1
    /\ LET bytesToRead == ChunkLen(size, bufferSize)
           proper == fillBufferWithProperData(bytesToRead, currentOffset)
           actual == ReadAt(file, fdPos, bytesToRead)
       IN  IF ~FillBufferSafe(bytesToRead, currentOffset)
           THEN /\ Abort("fill")
                /\ UNCHANGED <<locals, openFds>>
           ELSE IF Len(actual) # bytesToRead \/ bytesToRead > blockSize
           THEN /\ Abort("short_read")
                /\ UNCHANGED <<locals, openFds>>
           ELSE IF actual = proper
           THEN /\ fdPos' = fdPos + bytesToRead
                /\ size' = size - bytesToRead
                /\ currentOffset' = currentOffset + bytesToRead
                /\ bufferSize' = bytesToRead
                /\ UNCHANGED <<pc, result, actualSize, error, openFds>>
           ELSE IF FirstDiff(actual, proper) = -1
           THEN /\ Abort("memcmp")
                /\ UNCHANGED <<locals, openFds>>
           ELSE /\ Return(DataMismatch(error, FirstDiff(actual, proper), proper,
                                       actual, bytesToRead))
                /\ UNCHANGED openFds
    /\ UNCHANGED <<exists, file, blockSize, op, origin, genSize, tampers>>

FinalOutcomeAlwaysOk(warning) == Ended("ok")
\* after the loop: the std::length_error for a recorded warning, or success
FinalOutcome(warning) ==
    IF warning.set THEN [Ended("size") EXCEPT !.warning = warning] ELSE Ended("ok")

\* the loop ends, close(fd), the final result
ValidateFinish ==
    /\ pc = "v_loop"
    /\ size = 0
    /\ openFds' = openFds - 1
    /\ Return(FinalOutcome(error))
    /\ UNCHANGED <<exists, file, blockSize, op, iters, origin, genSize, tampers>>

\* ---- the storage under test ------------------------------------------------
\* one byte of the file is changed while no operation runs
TamperByte(p, v) ==
    /\ pc = "idle"
    /\ exists
    /\ tampers < MaxTamper
    /\ p < Len(file)
    /\ file[p + 1] # v
    /\ file' = [file EXCEPT ![p + 1] = v]
    /\ tampers' = tampers + 1
    /\ origin' = "none"
    /\ result' = NoResult
    /\ iters' = 0
    /\ UNCHANGED <<exists, blockSize, pc, op, openFds, locals, genSize>>

\* the file is cut, or extended with zero bytes, while no operation runs
TamperLength(n) ==
    /\ pc = "idle"
    /\ exists
    /\ tampers < MaxTamper
    /\ n # Len(file)
    /\ file' = [i \in 1..n |-> IF i <= Len(file) THEN file[i] ELSE 0]
    /\ tampers' = tampers + 1
    /\ origin' = "none"
    /\ result' = NoResult
    /\ iters' = 0
    /\ UNCHANGED <<exists, blockSize, pc, op, openFds, locals, genSize>>

Next ==
    \/ \E sz \in 0..MaxSize : CreateOpen(sz)
    \/ OverwriteOpen
    \/ FillHeader
    \/ FillChunk
    \/ FillClose
    \/ ValidateOpen
    \/ ValidateHeader
    \/ ValidateChunk
    \/ ValidateFinish
    \/ \E p \in 0..(MaxSize - 1), v \in TamperBytes : TamperByte(p, v)
    \/ \E n \in 0..MaxSize : TamperLength(n)

Spec == Init /\ [][Next]_vars


\* ---- the file format, as the documentation states it -----------------------
\* (valid for offsets and sizes below 256, which the bounds guarantee)
Ceil(a, b) == (a + b - 1) \div b

\* byte (o mod 8) of the big-endian encoding of 0x0807060504030201 + 8*floor(o/8)
RefByte(o) == IF o % 8 = 7 THEN 1 + 8 * (o \div 8) ELSE 8 - (o % 8)

\* byte i (0..7) of the big-endian 64-bit encoding of n
RefHeaderByte(i, n) ==
    IF i = 7 THEN n % 256 ELSE IF i = 6 THEN (n \div 256) % 256 ELSE 0

HeaderIs(f, n) == Len(f) >= 8 /\ \A i \in 0..7 : f[i + 1] = RefHeaderByte(i, n)

BadOffsets(f) == {o \in 8..(Len(f) - 1) : f[o + 1] # RefByte(o)}

PayloadOK(f) == BadOffsets(f) = {}

\* validateFile has just gone back to its caller, and the file is as it read it
ValidateDone == pc = "idle" /\ op = "validate" /\ result.kind # "none"

\* the recorded warning carries the header's value and the file's length
WarningOf(f, w) ==
    /\ w.set
    /\ w.actual = Len(f)
    /\ \A k \in 1..8 : w.expected[k] = f[9 - k]


\* ---- claims ------------------------------------------------------------------

\* C1: validateFile on a file that createFile wrote (size >= 8, any block
\* size) and that nothing changed since returns without an error.
C1_RoundTrip == (ValidateDone /\ origin = "create") => result.kind = "ok"

C1_Witness ==
    /\ ValidateDone
    /\ origin = "create"
    /\ result.kind = "ok"
    /\ genSize % 8 # 0
    /\ blockSize % 8 # 0
    /\ iters >= 2

\* C2: the file createFile leaves has exactly `size` bytes, the big-endian
\* size in bytes 0..7, and at every offset o in [8, size) byte (o mod 8) of the
\* big-endian encoding of 0x0807060504030201 + 8*floor(o/8), whatever the
\* block size.
C2_FileFormat ==
    (pc = "idle" /\ origin = "create") =>
        /\ Len(file) = genSize
        /\ HeaderIs(file, genSize)
        /\ PayloadOK(file)

C2_Witness ==
    /\ pc = "idle"
    /\ origin = "create"
    /\ op = "create"
    /\ genSize = 2 * BlockLen + 1
    /\ blockSize = 3

\* C3: with exactly one payload byte changed at absolute offset p in an
\* otherwise proper file, validateFile fails with a data mismatch that reports
\* offset p and whose dumps start at that byte.
C3_ReportsAbsoluteOffset ==
    (ValidateDone /\ HeaderIs(file, Len(file)) /\ Cardinality(BadOffsets(file)) = 1) =>
        LET p == CHOOSE o \in BadOffsets(file) : TRUE
        IN  /\ result.kind = "data"
            /\ result.offset = p
            /\ result.expected # <<>> /\ result.expected[1] = RefByte(p)
            /\ result.actual # <<>> /\ result.actual[1] = file[p + 1]

\* C4: a file of length L >= 8 whose header is not L and whose payload is the
\* pattern is compared in full and fails with the size-mismatch error, never
\* with success or a data mismatch.
C4_SizeMismatch ==
    (ValidateDone /\ Len(file) >= 8 /\ ~HeaderIs(file, Len(file)) /\ PayloadOK(file)) =>
        /\ result.kind = "size"
        /\ WarningOf(file, result.warning)
        /\ iters = Ceil(Len(file) - 8, blockSize)

C4_Witness ==
    /\ ValidateDone
    /\ result.kind = "size"
    /\ PayloadOK(file)
    /\ \E n \in (Len(file) + 1)..MaxSize : HeaderIs(file, n)
    /\ iters >= 2

\* C5: a file of length L >= 9 whose header is not L and with a payload byte
\* off the pattern fails with one data-mismatch error that starts with the
\* size warning; the size-mismatch-only error is not raised.
C5_BothProblems ==
    (ValidateDone /\ Len(file) >= 9 /\ ~HeaderIs(file, Len(file)) /\ ~PayloadOK(file)) =>
        /\ result.kind = "data"
        /\ WarningOf(file, result.warning)

C5_Witness ==
    /\ ValidateDone
    /\ Len(file) >= 9
    /\ ~HeaderIs(file, Len(file))
    /\ ~PayloadOK(file)
    /\ result.kind = "data"
    /\ iters >= 2

\* C6: on a file shorter than 8 bytes validateFile fails with the short-file
\* error carrying the length, records no warning and never enters the content
\* check.
C6_ShortFile ==
    ( /\ exists
      /\ op = "validate"
      /\ Len(file) < 8
      /\ pc # "v_header"
      /\ ~(pc = "idle" /\ result.kind = "none") ) =>
        /\ pc = "idle"
        /\ result.kind = "short"
        /\ result.size = Len(file)
        /\ ~result.warning.set
        /\ iters = 0

C6_Witness ==
    /\ ValidateDone
    /\ result.kind = "short"
    /\ Len(file) = 4
    /\ result.size = 4


\* C7: overwriteFile on a file of length S >= 8 with any prior content leaves
\* a file of length S, never resized on the way, with the bytes createFile
\* writes for S; validateFile then succeeds.
C7_OverwriteEqualsCreate ==
    /\ (op = "overwrite" /\ pc \in {"fill_header", "fill_loop"}) => Len(file) = genSize
    /\ (pc = "idle" /\ origin = "overwrite") =>
           /\ Len(file) = genSize
           /\ HeaderIs(file, genSize)
           /\ PayloadOK(file)
           /\ ValidateDone => result.kind = "ok"

C7_Witness ==
    /\ ValidateDone
    /\ origin = "overwrite"
    /\ tampers > 0
    /\ genSize > 2 * BlockLen
    /\ result.kind = "ok"

\* C8: whenever control is back at the caller, no descriptor opened by the
\* three operations is still open.
C8_NoDescriptorLeft == pc = "idle" => openFds = 0

\* C9: validateFile on an existing file reaches no fatal assertion, runs at
\* most ceil((L-8)/blockSize) chunk iterations, each of which leaves fewer
\* bytes to check, and ends in success, short-file, size-mismatch or
\* data-mismatch.
C9_ValidateInv ==
    (op = "validate" /\ exists) =>
        /\ pc # "aborted"
        /\ iters <= Ceil(IF Len(file) > 8 THEN Len(file) - 8 ELSE 0, blockSize)
        /\ pc = "v_loop" =>
               /\ size >= 0
               /\ currentOffset + size = Len(file)
               /\ fdPos = currentOffset
               /\ FillBufferSafe(ChunkLen(size, bufferSize), currentOffset)
        /\ (pc = "idle" /\ result.kind # "none") =>
               result.kind \in {"ok", "short", "size", "data"}

C9_ValidateTerminates ==
    /\ []C9_ValidateInv
    /\ [][(pc = "v_loop") => (pc' = "idle" \/ (pc' = "v_loop" /\ size' < size))]_vars

C9_Witness ==
    /\ ValidateDone
    /\ result.kind = "data"
    /\ iters = Ceil(Len(file) - 8, blockSize)
    /\ iters >= 3
    /\ blockSize % 8 # 0

\* C10: with a target size below 8 the fill ends in the size assertion after
\* the open and before any write: overwriteFile leaves the short file as it
\* was, createFile leaves an empty file.
C10_AssertBeforeWrite ==
    /\ [][ /\ (pc = "idle" /\ pc' = "fill_header") =>
                (exists' /\ file' = IF op' = "create" THEN <<>> ELSE file)
           /\ (pc = "fill_header" /\ size < 8) =>
                (pc' = "aborted" /\ result'.why = "size_assert" /\ file' = file)
         ]_vars
    /\ []((pc = "aborted" /\ result.why = "size_assert") =>
             /\ genSize < 8
             /\ op = "create" => file = <<>>
             /\ op = "overwrite" => Len(file) = genSize)

C10_Witness ==
    /\ pc = "aborted"
    /\ result.why = "size_assert"
    /\ op = "overwrite"
    /\ Len(file) = 5
    /\ ~PayloadOK(file) \/ ~HeaderIs(file, Len(file))

====
